---------------------------- MODULE Spec2Model ----------------------------
(***************************************************************************)
(* Flame Match backend: the Express route handlers of server/src/routes    *)
(* over the relational tables of the initial schema migration.             *)
(*                                                                         *)
(* Every handler is a sequence of store round trips (one per await); each  *)
(* round trip is one atomic step of the store, and the steps of different  *)
(* requests interleave freely.  A request is a record in reqs: the inputs  *)
(* the handler has read, its local variables, its position (pc) and, once  *)
(* pc = "done", its response.                                              *)
(***************************************************************************)
EXTENDS Integers, Sequences, FiniteSets, TLC

VARIABLES
    interactions,   \* table interactions: rows [id, user_id, target_user_id, interaction_type]
    matches,        \* table matches: rows [id, user_id_1, user_id_2]
    messages,       \* table messages: rows [id, match_id, sender_id, content, read_at, created_at]
    avatar_url,     \* table profiles, column avatar_url, per user (0 = NULL)
    profile_photos, \* table profile_photos: rows [id, user_id, photo_url, order]
    objects,        \* object storage: set of [bucket, name]
    clock,          \* now(): the timestamp the next write gets
    session,        \* the user whose session the shared supabase client holds (0 = none)
    identities,     \* auth.users: set of [user, email, password]
    profiles,       \* table profiles: set of [id, email]
    profile_details,\* table profile_details: set of [user_id]
    reqs            \* the requests received so far, in order of arrival

vars == <<interactions, matches, messages, avatar_url, profile_photos, objects, clock, session,
          identities, profiles, profile_details, reqs>>

(***************************************************************************)
(* Bounds of the model.                                                    *)
(***************************************************************************)
MaxInteractionReqs == 2
MaxMessageReqs == 2
MaxUploadReqs == 1
MaxClock == 3

\* The registered users; ids are uuids, compared as the code compares them
\* (Array.prototype.sort on two strings, uuid < uuid in the CHECK).
Users == {1, 2, 3}
\* A request's bearer token resolves to a user, or to none (0): no header,
\* or a token supabase.auth.getUser rejects.
NoUser == 0
Tokens == Users \cup {NoUser}
NULL == 0

(***************************************************************************)
(* middleware/auth.ts                                                      *)
(***************************************************************************)
\* verifyAuth: 401 without a user, otherwise req.user is set and next() runs.
verifyAuthAcceptsAll(token) == 0

verifyAuth(token) == IF token = NoUser THEN 401 ELSE 0

(***************************************************************************)
(* Table constraints (initial schema migration).  Row-level security is    *)
(* enforced by the platform against the session of the shared client, not  *)
(* by the handlers; it is not modelled: the outcome of a store call is     *)
(* decided by the table constraints alone.                                 *)
(***************************************************************************)
InteractionTypes == {"like", "pass", "favorite", "archive", "comment"}

\* interactions: CHECK (interaction_type IN ...), CHECK (user_id != target_user_id),
\* UNIQUE(user_id, target_user_id, interaction_type), FK to profiles.
\* The store's error for an insert, "none" when the row is accepted.
InteractionInsertErrorNoTypeCheck(rows, u, t, ty) ==
    IF u = t THEN "violates check constraint"
    ELSE IF t \notin Users THEN "violates foreign key constraint"
    ELSE IF \E r \in rows : /\ r.user_id = u
                            /\ r.target_user_id = t
                            /\ r.interaction_type = ty
         THEN "duplicate key"
    ELSE "none"

InteractionInsertError(rows, u, t, ty) ==
    IF ty \notin InteractionTypes \/ u = t THEN "violates check constraint"
    ELSE IF t \notin Users THEN "violates foreign key constraint"
    ELSE IF \E r \in rows : /\ r.user_id = u
                            /\ r.target_user_id = t
                            /\ r.interaction_type = ty
         THEN "duplicate key"
    ELSE "none"

\* matches: CHECK (user_id_1 < user_id_2), UNIQUE(user_id_1, user_id_2).
MatchInsertErrorUnconstrained(rows, u1, u2) == "none"

MatchInsertErrorNoUnique(rows, u1, u2) ==
    IF ~(u1 < u2) THEN "violates check constraint" ELSE "none"

MatchInsertError(rows, u1, u2) ==
    IF ~(u1 < u2) THEN "violates check constraint"
    ELSE IF \E r \in rows : r.user_id_1 = u1 /\ r.user_id_2 = u2 THEN "duplicate key"
    ELSE "none"

\* INSERT of an accepted row: the table gains the row and keeps the others.
InsertReplacingPair(rows, row) ==
    {r \in rows : ~(r.user_id = row.user_id /\ r.target_user_id = row.target_user_id)}
        \cup {row}

InsertRow(rows, row) == rows \cup {row}

\* gen_random_uuid() for a new row: an id no row of the table has.
NewId(rows) == Cardinality(rows) + 1

(***************************************************************************)
(* routes/interactions.ts: POST /api/interactions                          *)
(***************************************************************************)
\* The body fields a client may send; 0 and "" stand for a missing field.
TargetInputs == Users \cup {0}
TypeInputs == {"like", "pass", "wink", ""}

\* Lines 147-153: the checks made before the first store call.
\* 0 when the request passes, otherwise the status of the AppError thrown.
ValidateInteractionNoSelfCheck(user, target, itype) ==
    IF target = 0 \/ itype = "" THEN 400 ELSE 0

ValidateInteraction(user, target, itype) ==
    IF target = 0 \/ itype = "" THEN 400
    ELSE IF target = user THEN 400
    ELSE 0

\* Lines 174-180: the reciprocal like, as maybeSingle() returns it.
ReciprocalAnyInteraction(rows, user, target) ==
    \E r \in rows : r.user_id = target /\ r.target_user_id = user

ReciprocalLikeOwnDirection(rows, user, target) ==
    \E r \in rows : /\ r.user_id = user
                    /\ r.target_user_id = target
                    /\ r.interaction_type = "like"

ReciprocalLike(rows, user, target) ==
    \E r \in rows : /\ r.user_id = target
                    /\ r.target_user_id = user
                    /\ r.interaction_type = "like"

\* Line 183: [user1, user2] = [req.user.id, target_user_id].sort()
SortPair(a, b) == IF a <= b THEN <<a, b>> ELSE <<b, a>>

\* Line 194: the response reports matched: true only if (!matchError).
MatchedOnDuplicateToo(matchError) == matchError \in {"none", "duplicate key"}

MatchedWheneverReciprocal(matchError) == TRUE

Matched(matchError) == matchError = "none"

InteractionReq(user, target, itype, pc, status, after) ==
    [kind |-> "interact", user |-> user, target |-> target, itype |-> itype,
     pc |-> pc, status |-> status, matched |-> FALSE, calls |-> 0,
     insertError |-> "unset", queryError |-> "unset", reciprocalLike |-> FALSE,
     matchError |-> "unset",
     after |-> after]

Count(kind) == Cardinality({i \in DOMAIN reqs : reqs[i].kind = kind})
Finished == {i \in DOMAIN reqs : reqs[i].pc = "done"}

\* The request arrives: verifyAuth, then the handler up to its first await.
StartInteraction ==
    /\ Count("interact") < MaxInteractionReqs
    /\ \E token \in Tokens :
         IF verifyAuth(token) # 0
         THEN reqs' = Append(reqs, InteractionReq(NoUser, 0, "", "done", 401, Finished))
         ELSE \E target \in TargetInputs, itype \in TypeInputs :
                LET v == ValidateInteraction(token, target, itype) IN
                reqs' = Append(reqs,
                    IF v # 0
                    THEN InteractionReq(token, target, itype, "done", v, Finished)
                    ELSE InteractionReq(token, target, itype, "insertInteraction", 0, Finished))
    /\ UNCHANGED <<interactions, matches, messages, avatar_url, profile_photos, objects, clock, session,
                 identities, profiles, profile_details>>

\* Lines 155-171: insert the interaction; any store error is a 400.
InsertInteraction(i) ==
    LET r == reqs[i]
        err == InteractionInsertError(interactions, r.user, r.target, r.itype)
        row == [id |-> NewId(interactions), user_id |-> r.user,
                target_user_id |-> r.target, interaction_type |-> r.itype]
    IN
    /\ r.kind = "interact" /\ r.pc = "insertInteraction"
    /\ IF err # "none"
       THEN /\ reqs' = [reqs EXCEPT ![i] = [r EXCEPT !.pc = "done", !.status = 400,
                                              !.calls = @ + 1, !.insertError = err]]
            /\ UNCHANGED interactions
       ELSE /\ interactions' = InsertRow(interactions, row)
            /\ reqs' = [reqs EXCEPT ![i] =
                 IF r.itype = "like"
                 THEN [r EXCEPT !.pc = "queryReciprocal", !.calls = @ + 1, !.insertError = err]
                 ELSE [r EXCEPT !.pc = "done", !.status = 201, !.matched = FALSE,
                                !.calls = @ + 1, !.insertError = err]]
    /\ UNCHANGED <<matches, messages, avatar_url, profile_photos, objects, clock, session,
                 identities, profiles, profile_details>>

\* Lines 173-182: query the reciprocal like.
QueryReciprocal(i) ==
    LET r == reqs[i]
        found == ReciprocalLike(interactions, r.user, r.target)
    IN
    /\ r.kind = "interact" /\ r.pc = "queryReciprocal"
    /\ reqs' = [reqs EXCEPT ![i] =
         IF found
         THEN [r EXCEPT !.pc = "insertMatch", !.calls = @ + 1, !.reciprocalLike = TRUE,
                        !.queryError = "none"]
         ELSE [r EXCEPT !.pc = "done", !.status = 201, !.matched = FALSE, !.calls = @ + 1,
                        !.queryError = "none"]]
    /\ UNCHANGED <<interactions, matches, messages, avatar_url, profile_photos, objects, clock, session,
                 identities, profiles, profile_details>>

\* Lines 183-206: insert the match for the sorted pair and respond.
InsertMatch(i) ==
    LET r == reqs[i]
        pair == SortPair(r.user, r.target)
        err == MatchInsertError(matches, pair[1], pair[2])
        row == [id |-> NewId(matches), user_id_1 |-> pair[1], user_id_2 |-> pair[2]]
    IN
    /\ r.kind = "interact" /\ r.pc = "insertMatch"
    /\ matches' = IF err = "none" THEN matches \cup {row} ELSE matches
    /\ reqs' = [reqs EXCEPT ![i] = [r EXCEPT !.pc = "done", !.status = 201,
                                       !.matched = Matched(err), !.calls = @ + 1,
                                       !.matchError = err]]
    /\ UNCHANGED <<interactions, messages, avatar_url, profile_photos, objects, clock, session,
                 identities, profiles, profile_details>>

\* A store call that fails for a reason other than a constraint (network,
\* service): supabase-js resolves with data null and an error, it does not throw.
StoreFault == "fetch failed"

\* Lines 155-171 when the insert fails so: the error message has no
\* 'duplicate key', line 170 answers 400.
InsertInteractionFails(i) ==
    LET r == reqs[i] IN
    /\ r.kind = "interact" /\ r.pc = "insertInteraction"
    /\ reqs' = [reqs EXCEPT ![i] = [r EXCEPT !.pc = "done", !.status = 400,
                                           !.calls = @ + 1, !.insertError = StoreFault]]
    /\ UNCHANGED <<interactions, matches, messages, avatar_url, profile_photos, objects, clock, session,
                 identities, profiles, profile_details>>

\* Lines 173-182 when the query fails: only data is read, and it is null.
QueryReciprocalFails(i) ==
    LET r == reqs[i] IN
    /\ r.kind = "interact" /\ r.pc = "queryReciprocal"
    /\ reqs' = [reqs EXCEPT ![i] = [r EXCEPT !.pc = "done", !.status = 201,
                                           !.matched = FALSE, !.calls = @ + 1,
                                           !.queryError = StoreFault]]
    /\ UNCHANGED <<interactions, matches, messages, avatar_url, profile_photos, objects, clock, session,
                 identities, profiles, profile_details>>

\* Lines 185-206 when the match insert fails so: no row, matchError is set.
InsertMatchFails(i) ==
    LET r == reqs[i] IN
    /\ r.kind = "interact" /\ r.pc = "insertMatch"
    /\ reqs' = [reqs EXCEPT ![i] = [r EXCEPT !.pc = "done", !.status = 201,
                                           !.matched = Matched(StoreFault),
                                           !.calls = @ + 1, !.matchError = StoreFault]]
    /\ UNCHANGED <<interactions, matches, messages, avatar_url, profile_photos, objects, clock, session,
                 identities, profiles, profile_details>>

(***************************************************************************)
(* routes/messages.ts                                                      *)
(***************************************************************************)
\* The time of a write: since the last write time has passed, or has not.
Now == {clock} \cup {t \in {clock + 1} : t <= MaxClock}

\* Message bodies are strings, here sequences of characters.
\* String.prototype.trim: strip leading and trailing white space.
RECURSIVE TrimLeft(_)
TrimLeft(s) == IF s # <<>> /\ Head(s) = " " THEN TrimLeft(Tail(s)) ELSE s

RECURSIVE TrimRight(_)
TrimRight(s) ==
    IF s # <<>> /\ s[Len(s)] = " " THEN TrimRight(SubSeq(s, 1, Len(s) - 1)) ELSE s

Trim(s) == TrimRight(TrimLeft(s))

\* The inputs a client may send.  <<>> also stands for a missing content.
ContentInputs == {<<>>, <<" ">>, <<" ", "h">>}
MatchIdInputs == {1, 2}
MessageIdInputs == {1, 2, 3}
DefaultLimit == 50
LimitInputs == {1, DefaultLimit}
OffsetInputs == {0, 1}

\* .from(table).select('*').eq('id', id).maybeSingle(): the row, or none.
NoRow == [id |-> 0]
RowById(rows, id) ==
    IF \E r \in rows : r.id = id THEN CHOOSE r \in rows : r.id = id ELSE NoRow

\* Line 13: !content || content.trim().length === 0
BlankContentNoTrim(content) == content = <<>>

BlankContent(content) == content = <<>> \/ Len(Trim(content)) = 0

\* Lines 27, 67, 112: the caller is one of the two users of the match.
AnyoneInMatch(match, user) == TRUE

isUserInMatch(match, user) == match.user_id_1 = user \/ match.user_id_2 = user

SendReq(user, matchId, content, pc, status) ==
    [kind |-> "send", user |-> user, matchId |-> matchId, content |-> content,
     pc |-> pc, status |-> status, calls |-> 0, match |-> NoRow, message |-> 0]

MessageCount == Count("send") + Count("list") + Count("read")

\* POST /:matchId arrives: verifyAuth, then lines 10-15.
StartSend ==
    /\ MessageCount < MaxMessageReqs
    /\ \E token \in Tokens :
         IF verifyAuth(token) # 0
         THEN reqs' = Append(reqs, SendReq(NoUser, 0, <<>>, "done", 401))
         ELSE \E matchId \in MatchIdInputs, content \in ContentInputs :
                reqs' = Append(reqs,
                    IF BlankContent(content)
                    THEN SendReq(token, matchId, content, "done", 400)
                    ELSE SendReq(token, matchId, content, "fetchMatch", 0))
    /\ UNCHANGED <<interactions, matches, messages, avatar_url, profile_photos, objects, clock, session,
                 identities, profiles, profile_details>>

\* Lines 17-30: fetch the match; 404 without it, 403 for a non-participant.
SendFetchMatch(i) ==
    LET r == reqs[i]
        match == RowById(matches, r.matchId)
    IN
    /\ r.kind = "send" /\ r.pc = "fetchMatch"
    /\ reqs' = [reqs EXCEPT ![i] =
         IF match = NoRow
         THEN [r EXCEPT !.pc = "done", !.status = 404, !.calls = @ + 1]
         ELSE IF ~isUserInMatch(match, r.user)
         THEN [r EXCEPT !.pc = "done", !.status = 403, !.calls = @ + 1, !.match = match]
         ELSE [r EXCEPT !.pc = "insertMessage", !.calls = @ + 1, !.match = match]]
    /\ UNCHANGED <<interactions, matches, messages, avatar_url, profile_photos, objects, clock, session,
                 identities, profiles, profile_details>>

\* Lines 34-38 and the column defaults (part_001 lines 142-149): the row the
\* insert stores; read_at has no default and is not set.
NewMessageAlreadyRead(id, matchId, user, content, now) ==
    [id |-> id, match_id |-> matchId, sender_id |-> user,
     content |-> Trim(content), read_at |-> now, created_at |-> now]

NewMessage(id, matchId, user, content, now) ==
    [id |-> id, match_id |-> matchId, sender_id |-> user,
     content |-> Trim(content), read_at |-> NULL, created_at |-> now]

\* Lines 32-46: insert the message (read_at NULL, created_at now()), 201.
SendInsertMessage(i) ==
    LET r == reqs[i] IN
    /\ r.kind = "send" /\ r.pc = "insertMessage"
    /\ \E now \in Now :
         LET row == NewMessage(NewId(messages), r.matchId, r.user, r.content, now)
         IN
         /\ clock' = now
         /\ messages' = messages \cup {row}
         /\ reqs' = [reqs EXCEPT ![i] = [r EXCEPT !.pc = "done", !.status = 201,
                                            !.calls = @ + 1, !.message = row.id]]
    /\ UNCHANGED <<interactions, matches, avatar_url, profile_photos, objects, session,
                 identities, profiles, profile_details>>

ListReq(user, matchId, limit, offset, pc, status) ==
    [kind |-> "list", user |-> user, matchId |-> matchId, limit |-> limit,
     offset |-> offset, pc |-> pc, status |-> status, calls |-> 0, match |-> NoRow,
     result |-> <<>>]

\* GET /:matchId arrives: verifyAuth, then lines 54-55.
StartList ==
    /\ MessageCount < MaxMessageReqs
    /\ \E token \in Tokens :
         IF verifyAuth(token) # 0
         THEN reqs' = Append(reqs, ListReq(NoUser, 0, 0, 0, "done", 401))
         ELSE \E matchId \in MatchIdInputs, limit \in LimitInputs, offset \in OffsetInputs :
                reqs' = Append(reqs,
                    ListReq(token, matchId, limit, offset, "fetchMatch", 0))
    /\ UNCHANGED <<interactions, matches, messages, avatar_url, profile_photos, objects, clock, session,
                 identities, profiles, profile_details>>

\* Lines 57-70.
ListFetchMatch(i) ==
    LET r == reqs[i]
        match == RowById(matches, r.matchId)
    IN
    /\ r.kind = "list" /\ r.pc = "fetchMatch"
    /\ reqs' = [reqs EXCEPT ![i] =
         IF match = NoRow
         THEN [r EXCEPT !.pc = "done", !.status = 404, !.calls = @ + 1]
         ELSE IF ~isUserInMatch(match, r.user)
         THEN [r EXCEPT !.pc = "done", !.status = 403, !.calls = @ + 1, !.match = match]
         ELSE [r EXCEPT !.pc = "queryMessages", !.calls = @ + 1, !.match = match]]
    /\ UNCHANGED <<interactions, matches, messages, avatar_url, profile_photos, objects, clock, session,
                 identities, profiles, profile_details>>

\* .order('created_at', { ascending: false }): the orders the store may return
\* the rows in (rows with equal created_at in either order).
DescendingOrders(rows) ==
    {s \in [1..Cardinality(rows) -> rows] :
        /\ \A k, l \in DOMAIN s : k # l => s[k] # s[l]
        /\ \A k, l \in DOMAIN s : k < l => s[k].created_at >= s[l].created_at}

\* .range(from, to): rows from..to of the result, counted from 0, inclusive.
Range(s, from, to) ==
    LET last == IF to + 1 < Len(s) THEN to + 1 ELSE Len(s) IN
    IF from + 1 > last THEN <<>> ELSE SubSeq(s, from + 1, last)

\* Array.prototype.reverse
NotReversed(s) == s

Reverse(s) == [k \in 1..Len(s) |-> s[Len(s) + 1 - k]]

\* Lines 72-86: the page, newest first from the store, reversed for the client.
\* An offset at or beyond the last row is a range the store may refuse (500).
ListQueryMessages(i) ==
    LET r == reqs[i]
        rows == {m \in messages : m.match_id = r.matchId}
    IN
    /\ r.kind = "list" /\ r.pc = "queryMessages"
    /\ \/ \E s \in DescendingOrders(rows) :
            reqs' = [reqs EXCEPT ![i] =
                [r EXCEPT !.pc = "done", !.status = 200, !.calls = @ + 1,
                          !.result = Reverse(Range(s, r.offset, r.offset + r.limit - 1))]]
       \/ /\ r.offset > 0 /\ r.offset >= Cardinality(rows)
          /\ reqs' = [reqs EXCEPT ![i] =
                [r EXCEPT !.pc = "done", !.status = 500, !.calls = @ + 1]]
    /\ UNCHANGED <<interactions, matches, messages, avatar_url, profile_photos, objects, clock, session,
                 identities, profiles, profile_details>>

ReadReq(user, messageId, pc, status) ==
    [kind |-> "read", user |-> user, messageId |-> messageId, pc |-> pc,
     status |-> status, calls |-> 0, message |-> NoRow]

\* PATCH /:messageId/read arrives: verifyAuth, then line 94.
StartRead ==
    /\ MessageCount < MaxMessageReqs
    /\ \E token \in Tokens :
         IF verifyAuth(token) # 0
         THEN reqs' = Append(reqs, ReadReq(NoUser, 0, "done", 401))
         ELSE \E messageId \in MessageIdInputs :
                reqs' = Append(reqs, ReadReq(token, messageId, "fetchMessage", 0))
    /\ UNCHANGED <<interactions, matches, messages, avatar_url, profile_photos, objects, clock, session,
                 identities, profiles, profile_details>>

\* Lines 96-104.
ReadFetchMessage(i) ==
    LET r == reqs[i]
        message == RowById(messages, r.messageId)
    IN
    /\ r.kind = "read" /\ r.pc = "fetchMessage"
    /\ reqs' = [reqs EXCEPT ![i] =
         IF message = NoRow
         THEN [r EXCEPT !.pc = "done", !.status = 404, !.calls = @ + 1]
         ELSE [r EXCEPT !.pc = "fetchMatch", !.calls = @ + 1, !.message = message]]
    /\ UNCHANGED <<interactions, matches, messages, avatar_url, profile_photos, objects, clock, session,
                 identities, profiles, profile_details>>

\* Lines 106-115.
ReadFetchMatch(i) ==
    LET r == reqs[i]
        match == RowById(matches, r.message.match_id)
    IN
    /\ r.kind = "read" /\ r.pc = "fetchMatch"
    /\ reqs' = [reqs EXCEPT ![i] =
         IF match = NoRow \/ ~isUserInMatch(match, r.user)
         THEN [r EXCEPT !.pc = "done", !.status = 403, !.calls = @ + 1]
         ELSE [r EXCEPT !.pc = "updateRead", !.calls = @ + 1]]
    /\ UNCHANGED <<interactions, matches, messages, avatar_url, profile_photos, objects, clock, session,
                 identities, profiles, profile_details>>

\* Line 120: the value written to read_at, new Date().toISOString().
ReadAtToggled(old, now) == IF old = NULL THEN now ELSE NULL

ReadAtValue(old, now) == now

\* Lines 117-128: update read_at of the message, 200.
ReadUpdate(i) ==
    LET r == reqs[i] IN
    /\ r.kind = "read" /\ r.pc = "updateRead"
    /\ \E now \in Now :
         /\ clock' = now
         /\ messages' = {IF m.id = r.messageId
                         THEN [m EXCEPT !.read_at = ReadAtValue(m.read_at, now)]
                         ELSE m : m \in messages}
    /\ reqs' = [reqs EXCEPT ![i] = [r EXCEPT !.pc = "done", !.status = 200, !.calls = @ + 1]]
    /\ UNCHANGED <<interactions, matches, avatar_url, profile_photos, objects, session,
                 identities, profiles, profile_details>>

(***************************************************************************)
(* config.ts and routes/upload.ts                                          *)
(***************************************************************************)
\* config.upload.allowedTypes, with ALLOWED_FILE_TYPES unset.
allowedTypes == {"image/jpeg", "image/png", "image/webp"}

\* multer's fileFilter (lines 103-109): TRUE accepts the file, FALSE fails
\* the request with Error('Invalid file type') before the handler runs.
fileFilterAcceptsAll(mimetype) == TRUE

fileFilter(mimetype) == mimetype \in allowedTypes

\* What a client may send: for the avatar one file (its MIME type) or none
\* (""), for the gallery a batch of files.
AvatarFileInputs == {"", "image/png", "image/webp", "application/pdf", "image/gif"}
PhotoBatchInputs ==
    {<<>>, <<"image/png">>, <<"application/pdf">>, <<"image/png", "image/jpeg">>,
     <<"image/png", "application/pdf">>, <<"application/pdf", "image/png">>}

\* The status of the response to an Error that is not an AppError.
PlainErrorStatus == {400, 500}

UploadReq(kind, user, files, pc, status) ==
    [kind |-> kind, user |-> user, files |-> files, pc |-> pc, status |-> status,
     calls |-> 0,
     filePc |-> [k \in DOMAIN files |-> IF pc = "tasks" THEN "upload" ELSE "idle"],
     url |-> [k \in DOMAIN files |-> 0]]

UploadCount == Count("avatar") + Count("photos")

\* uuidv4() in the object name: a name no stored object has.
NewObject(bucket, user, mimetype) ==
    [bucket |-> bucket, folder |-> user, id |-> NewId(objects), contentType |-> mimetype]

\* POST /avatar arrives: verifyAuth, upload.single('file'), then lines 116-121.
StartAvatar ==
    /\ UploadCount < MaxUploadReqs
    /\ \E token \in Tokens :
         IF verifyAuth(token) # 0
         THEN reqs' = Append(reqs, UploadReq("avatar", NoUser, <<>>, "done", 401))
         ELSE \E file \in AvatarFileInputs :
                LET files == IF file = "" THEN <<>> ELSE <<file>> IN
                IF \E k \in DOMAIN files : ~fileFilter(files[k])
                THEN \E st \in PlainErrorStatus :
                        reqs' = Append(reqs, UploadReq("avatar", token, files, "done", st))
                ELSE IF files = <<>>
                THEN reqs' = Append(reqs, UploadReq("avatar", token, files, "done", 400))
                ELSE reqs' = Append(reqs, UploadReq("avatar", token, files, "upload", 0))
    /\ UNCHANGED <<interactions, matches, messages, avatar_url, profile_photos, objects, clock, session,
                 identities, profiles, profile_details>>

\* Lines 123-136: store the object in bucket avatars.
AvatarUpload(i) ==
    LET r == reqs[i]
        obj == NewObject("avatars", r.user, r.files[1])
    IN
    /\ r.kind = "avatar" /\ r.pc = "upload"
    /\ objects' = objects \cup {obj}
    /\ reqs' = [reqs EXCEPT ![i] = [r EXCEPT !.pc = "updateProfile", !.calls = @ + 1,
                                       !.url = [@ EXCEPT ![1] = obj.id]]]
    /\ UNCHANGED <<interactions, matches, messages, avatar_url, profile_photos, clock, session,
                 identities, profiles, profile_details>>

\* Lines 138-153: point the profile at the object, 200.
AvatarUpdateProfile(i) ==
    LET r == reqs[i] IN
    /\ r.kind = "avatar" /\ r.pc = "updateProfile"
    /\ avatar_url' = [avatar_url EXCEPT ![r.user] = r.url[1]]
    /\ reqs' = [reqs EXCEPT ![i] = [r EXCEPT !.pc = "done", !.status = 200, !.calls = @ + 1]]
    /\ UNCHANGED <<interactions, matches, messages, profile_photos, objects, clock, session,
                 identities, profiles, profile_details>>

\* POST /profile-photos arrives: verifyAuth, upload.array('files', 10), then
\* lines 161-171: every file's task runs up to its first await.
StartPhotos ==
    /\ UploadCount < MaxUploadReqs
    /\ \E token \in Tokens :
         IF verifyAuth(token) # 0
         THEN reqs' = Append(reqs, UploadReq("photos", NoUser, <<>>, "done", 401))
         ELSE \E files \in PhotoBatchInputs :
                IF \E k \in DOMAIN files : ~fileFilter(files[k])
                THEN \E st \in PlainErrorStatus :
                        reqs' = Append(reqs, UploadReq("photos", token, files, "done", st))
                ELSE IF files = <<>>
                THEN reqs' = Append(reqs, UploadReq("photos", token, files, "done", 400))
                ELSE reqs' = Append(reqs, UploadReq("photos", token, files, "tasks", 0))
    /\ UNCHANGED <<interactions, matches, messages, avatar_url, profile_photos, objects, clock, session,
                 identities, profiles, profile_details>>

\* Promise.all over the tasks of the batch (line 170): rejected as soon as
\* one task has thrown, fulfilled when every task has returned.
PromiseAllSettled(filePc) ==
    IF \A k \in DOMAIN filePc : filePc[k] \in {"done", "failed"} THEN "fulfilled"
    ELSE "pending"

PromiseAll(filePc) ==
    IF \E k \in DOMAIN filePc : filePc[k] = "failed" THEN "rejected"
    ELSE IF \A k \in DOMAIN filePc : filePc[k] = "done" THEN "fulfilled"
    ELSE "pending"

\* Lines 170-208 after a task of request r has moved: the handler answers
\* once, 201 when the batch is fulfilled (line 205), through next(error) with
\* status st when it is rejected (line 207); the other tasks keep running.
BatchStep(r, filePc, st) ==
    LET outcome == PromiseAll(filePc) IN
    IF r.pc # "tasks" \/ outcome = "pending"
    THEN [r EXCEPT !.calls = @ + 1, !.filePc = filePc]
    ELSE [r EXCEPT !.calls = @ + 1, !.filePc = filePc, !.pc = "done",
                   !.status = IF outcome = "fulfilled" THEN 201 ELSE st]

\* Lines 172-185, for file k of the batch: store the object.
PhotoUpload(i, k) ==
    LET r == reqs[i]
        obj == NewObject("profile-photos", r.user, r.files[k])
    IN
    /\ r.kind = "photos"
    /\ k \in DOMAIN r.files /\ r.filePc[k] = "upload"
    /\ objects' = objects \cup {obj}
    /\ reqs' = [reqs EXCEPT ![i] = [r EXCEPT !.calls = @ + 1,
                                       !.filePc = [@ EXCEPT ![k] = "insert"],
                                       !.url = [@ EXCEPT ![k] = obj.id]]]
    /\ UNCHANGED <<interactions, matches, messages, avatar_url, profile_photos, clock, session,
                 identities, profiles, profile_details>>

\* Lines 172-181 when the object store refuses file k: the task throws.
PhotoUploadFails(i, k) ==
    LET r == reqs[i] IN
    /\ r.kind = "photos"
    /\ k \in DOMAIN r.files /\ r.filePc[k] = "upload"
    /\ \E st \in PlainErrorStatus :
         reqs' = [reqs EXCEPT ![i] = BatchStep(r, [r.filePc EXCEPT ![k] = "failed"], st)]
    /\ UNCHANGED <<interactions, matches, messages, avatar_url, profile_photos, objects, clock, session,
                 identities, profiles, profile_details>>

\* Lines 187-205, for file k: insert its profile_photos row; the request
\* responds 201 when the last task of the batch has returned.
PhotoInsert(i, k) ==
    LET r == reqs[i]
        row == [id |-> NewId(profile_photos), user_id |-> r.user,
                photo_url |-> r.url[k], order |-> k - 1]
    IN
    /\ r.kind = "photos"
    /\ k \in DOMAIN r.files /\ r.filePc[k] = "insert"
    /\ profile_photos' = profile_photos \cup {row}
    /\ reqs' = [reqs EXCEPT ![i] = BatchStep(r, [r.filePc EXCEPT ![k] = "done"], 0)]
    /\ UNCHANGED <<interactions, matches, messages, avatar_url, objects, clock, session,
                 identities, profiles, profile_details>>

\* Lines 187-199 when the insert of file k's row fails: the object stays
\* stored, the task throws.
PhotoInsertFails(i, k) ==
    LET r == reqs[i] IN
    /\ r.kind = "photos"
    /\ k \in DOMAIN r.files /\ r.filePc[k] = "insert"
    /\ \E st \in PlainErrorStatus :
         reqs' = [reqs EXCEPT ![i] = BatchStep(r, [r.filePc EXCEPT ![k] = "failed"], st)]
    /\ UNCHANGED <<interactions, matches, messages, avatar_url, profile_photos, objects, clock, session,
                 identities, profiles, profile_details>>

(***************************************************************************)
(* routes/upload.ts: DELETE /profile-photos/:photoId                       *)
(***************************************************************************)
PhotoIdInputs == {1, 2, 3}

DeleteReq(user, photoId, pc, status) ==
    [kind |-> "delete", user |-> user, photoId |-> photoId, pc |-> pc,
     status |-> status, calls |-> 0, photo |-> NoRow]

\* DELETE /profile-photos/:photoId arrives: verifyAuth, then line 213.
StartDelete ==
    /\ \E token \in Tokens :
         IF verifyAuth(token) # 0
         THEN reqs' = Append(reqs, DeleteReq(NoUser, 0, "done", 401))
         ELSE \E photoId \in PhotoIdInputs :
                reqs' = Append(reqs, DeleteReq(token, photoId, "fetchPhoto", 0))
    /\ UNCHANGED <<interactions, matches, messages, avatar_url, profile_photos, objects, clock, session,
                 identities, profiles, profile_details>>

\* Line 225: photo.user_id !== req.user!.id, negated.
AnyoneIsOwner(photo, user) == TRUE

isOwner(photo, user) == photo.user_id = user

\* Lines 215-227: fetch the row; 404 without it, 403 for another user's photo.
DeleteFetchPhoto(i) ==
    LET r == reqs[i]
        photo == RowById(profile_photos, r.photoId)
    IN
    /\ r.kind = "delete" /\ r.pc = "fetchPhoto"
    /\ reqs' = [reqs EXCEPT ![i] =
         IF photo = NoRow
         THEN [r EXCEPT !.pc = "done", !.status = 404, !.calls = @ + 1]
         ELSE IF ~isOwner(photo, r.user)
         THEN [r EXCEPT !.pc = "done", !.status = 403, !.calls = @ + 1]
         ELSE [r EXCEPT !.pc = "removeObject", !.calls = @ + 1, !.photo = photo]]
    /\ UNCHANGED <<interactions, matches, messages, avatar_url, profile_photos, objects, clock, session,
                 identities, profiles, profile_details>>

\* Lines 215-223 when the select fails: fetchError is a 404 too.
DeleteFetchPhotoFails(i) ==
    LET r == reqs[i] IN
    /\ r.kind = "delete" /\ r.pc = "fetchPhoto"
    /\ reqs' = [reqs EXCEPT ![i] = [r EXCEPT !.pc = "done", !.status = 404, !.calls = @ + 1]]
    /\ UNCHANGED <<interactions, matches, messages, avatar_url, profile_photos, objects, clock, session,
                 identities, profiles, profile_details>>

\* Lines 229-238: remove the object the photo_url names from the bucket;
\* removing a name the bucket does not have is not an error.
DeleteRemoveObject(i) ==
    LET r == reqs[i] IN
    /\ r.kind = "delete" /\ r.pc = "removeObject"
    /\ objects' = {o \in objects :
                     ~(o.bucket = "profile-photos" /\ o.id = r.photo.photo_url)}
    /\ reqs' = [reqs EXCEPT ![i] = [r EXCEPT !.pc = "deleteRow", !.calls = @ + 1]]
    /\ UNCHANGED <<interactions, matches, messages, avatar_url, profile_photos, clock, session,
                 identities, profiles, profile_details>>

\* Lines 232-238 when the object store fails: 400, nothing removed.
DeleteRemoveObjectFails(i) ==
    LET r == reqs[i] IN
    /\ r.kind = "delete" /\ r.pc = "removeObject"
    /\ reqs' = [reqs EXCEPT ![i] = [r EXCEPT !.pc = "done", !.status = 400, !.calls = @ + 1]]
    /\ UNCHANGED <<interactions, matches, messages, avatar_url, profile_photos, objects, clock, session,
                 identities, profiles, profile_details>>

\* Lines 240-249: delete the row, 200.
DeleteRow(i) ==
    LET r == reqs[i] IN
    /\ r.kind = "delete" /\ r.pc = "deleteRow"
    /\ profile_photos' = {p \in profile_photos : p.id # r.photoId}
    /\ reqs' = [reqs EXCEPT ![i] = [r EXCEPT !.pc = "done", !.status = 200, !.calls = @ + 1]]
    /\ UNCHANGED <<interactions, matches, messages, avatar_url, objects, clock, session,
                 identities, profiles, profile_details>>

\* Lines 240-247 when the delete fails: 400; the object is already removed.
DeleteRowFails(i) ==
    LET r == reqs[i] IN
    /\ r.kind = "delete" /\ r.pc = "deleteRow"
    /\ reqs' = [reqs EXCEPT ![i] = [r EXCEPT !.pc = "done", !.status = 400, !.calls = @ + 1]]
    /\ UNCHANGED <<interactions, matches, messages, avatar_url, profile_photos, objects, clock, session,
                 identities, profiles, profile_details>>

(***************************************************************************)
(* The matches routes (part_004): GET /:matchId                            *)
(***************************************************************************)
GetMatchReq(user, matchId, pc, status) ==
    [kind |-> "getMatch", user |-> user, matchId |-> matchId, pc |-> pc,
     status |-> status, calls |-> 0, result |-> NoRow]

\* GET /api/matches/:matchId arrives: verifyAuth, then line 57.
StartGetMatch ==
    /\ \E token \in Tokens :
         IF verifyAuth(token) # 0
         THEN reqs' = Append(reqs, GetMatchReq(NoUser, 0, "done", 401))
         ELSE \E matchId \in MatchIdInputs :
                reqs' = Append(reqs, GetMatchReq(token, matchId, "fetchMatch", 0))
    /\ UNCHANGED <<interactions, matches, messages, avatar_url, profile_photos, objects, clock, session,
                 identities, profiles, profile_details>>

\* Lines 59-75: 404 without the match, 403 for a non-participant, else the row.
GetMatchFetch(i) ==
    LET r == reqs[i]
        match == RowById(matches, r.matchId)
    IN
    /\ r.kind = "getMatch" /\ r.pc = "fetchMatch"
    /\ reqs' = [reqs EXCEPT ![i] =
         IF match = NoRow
         THEN [r EXCEPT !.pc = "done", !.status = 404, !.calls = @ + 1]
         ELSE IF ~isUserInMatch(match, r.user)
         THEN [r EXCEPT !.pc = "done", !.status = 403, !.calls = @ + 1]
         ELSE [r EXCEPT !.pc = "done", !.status = 200, !.calls = @ + 1, !.result = match]]
    /\ UNCHANGED <<interactions, matches, messages, avatar_url, profile_photos, objects, clock, session,
                 identities, profiles, profile_details>>

(***************************************************************************)
(* The profiles routes (part_003): GET /explore/feed                       *)
(***************************************************************************)
DefaultFeedLimit == 10
FeedLimitInputs == {1, DefaultFeedLimit}
FeedOffsetInputs == {0, 1, 2}

FeedReq(user, limit, offset, pc, status) ==
    [kind |-> "feed", user |-> user, limit |-> limit, offset |-> offset, pc |-> pc,
     status |-> status, calls |-> 0, result |-> <<>>]

\* GET /api/profiles/explore/feed arrives: verifyAuth, then line 179.
StartFeed ==
    /\ \E token \in Tokens :
         IF verifyAuth(token) # 0
         THEN reqs' = Append(reqs, FeedReq(NoUser, 0, 0, "done", 401))
         ELSE \E limit \in FeedLimitInputs, offset \in FeedOffsetInputs :
                reqs' = Append(reqs, FeedReq(token, limit, offset, "query", 0))
    /\ UNCHANGED <<interactions, matches, messages, avatar_url, profile_photos, objects, clock, session,
                 identities, profiles, profile_details>>

\* .from('profiles').select(...).neq('id', caller): the ids of the rows the
\* filter keeps.
FeedRowsWithSelf(caller) == {p.id : p \in profiles}

FeedRows(caller) == {p.id : p \in {q \in profiles : q.id # caller}}

\* No .order(): the store may return the rows in any order.
Orderings(rows) ==
    {s \in [1..Cardinality(rows) -> rows] : \A k, l \in DOMAIN s : k # l => s[k] # s[l]}

\* .limit(n): at most the first n rows.
Limit(s, n) == IF Len(s) > n THEN SubSeq(s, 1, n) ELSE s

\* Lines 181-204: the page of the filtered profiles, 200; a store error is 500.
\* An offset at or beyond the last row is a range the store may refuse.
FeedQuery(i) ==
    LET r == reqs[i]
        rows == FeedRows(r.user)
    IN
    /\ r.kind = "feed" /\ r.pc = "query"
    /\ \/ \E s \in Orderings(rows) :
            reqs' = [reqs EXCEPT ![i] =
                [r EXCEPT !.pc = "done", !.status = 200, !.calls = @ + 1,
                          !.result = Limit(Range(s, r.offset, r.offset + r.limit - 1),
                                           r.limit)]]
       \/ /\ r.offset > 0 /\ r.offset >= Cardinality(rows)
          /\ reqs' = [reqs EXCEPT ![i] =
                [r EXCEPT !.pc = "done", !.status = 500, !.calls = @ + 1]]
    /\ UNCHANGED <<interactions, matches, messages, avatar_url, profile_photos, objects, clock, session,
                 identities, profiles, profile_details>>

(***************************************************************************)
(* routes/auth.ts: login, logout, verify                                   *)
(***************************************************************************)
\* The accounts of the auth service once the three users have registered,
\* and the rows registration has stored for them.
NoEmail == ""
Accounts == {[email |-> "u1@dayo", password |-> "pw1", user |-> 1],
             [email |-> "u2@dayo", password |-> "pw2", user |-> 2],
             [email |-> "u3@dayo", password |-> "pw3", user |-> 3]}
InitProfiles == {[id |-> a.user, email |-> a.email] : a \in Accounts}
InitDetails == {[user_id |-> a.user] : a \in Accounts}
EmailInputs == {NoEmail, "u1@dayo", "u2@dayo", "nobody@dayo"}
PasswordInputs == {"", "pw1", "pw2"}

\* supabase.auth.signInWithPassword: the account the credentials open, or
\* the cause of the refusal, which the service knows and may report.
SignIn(email, password) ==
    IF ~\E a \in identities : a.email = email
    THEN [user |-> NoUser, error |-> "no account with this email"]
    ELSE LET a == CHOOSE a \in identities : a.email = email IN
         IF a.password # password
         THEN [user |-> NoUser, error |-> "wrong password"]
         ELSE [user |-> a.user, error |-> "none"]

\* Lines 80-82: what the client is told when the sign-in is refused.
LoginErrorPassedThrough(error) == [status |-> 401, body |-> error]

LoginError(error) == [status |-> 401, body |-> "Invalid credentials"]

LoginReq(email, password, pc, status, body) ==
    [kind |-> "login", user |-> NoUser, email |-> email, password |-> password,
     pc |-> pc, status |-> status, body |-> body, calls |-> 0]

\* POST /api/auth/login arrives: no verifyAuth; lines 69-73.
StartLogin ==
    /\ \E email \in EmailInputs, password \in PasswordInputs :
         reqs' = Append(reqs,
             IF email = NoEmail \/ password = ""
             THEN LoginReq(email, password, "done", 400, "Email and password are required")
             ELSE LoginReq(email, password, "signIn", 0, ""))
    /\ UNCHANGED <<interactions, matches, messages, avatar_url, profile_photos, objects, clock, session,
                 identities, profiles, profile_details>>

\* Lines 75-87: sign in on the shared client, which keeps the session.
LoginSignIn(i) ==
    LET r == reqs[i]
        res == SignIn(r.email, r.password)
    IN
    /\ r.kind = "login" /\ r.pc = "signIn"
    /\ IF res.error # "none"
       THEN /\ reqs' = [reqs EXCEPT ![i] =
                 [r EXCEPT !.pc = "done", !.status = LoginError(res.error).status,
                           !.body = LoginError(res.error).body, !.calls = @ + 1]]
            /\ UNCHANGED session
       ELSE /\ reqs' = [reqs EXCEPT ![i] =
                 [r EXCEPT !.pc = "done", !.status = 200, !.body = "session",
                           !.user = res.user, !.calls = @ + 1]]
            /\ session' = res.user
    /\ UNCHANGED <<interactions, matches, messages, avatar_url, profile_photos, objects, clock,
                 identities, profiles, profile_details>>

LogoutReq(user, pc, status) ==
    [kind |-> "logout", user |-> user, pc |-> pc, status |-> status, calls |-> 0]

\* POST /api/auth/logout arrives: verifyAuth.
StartLogout ==
    /\ \E token \in Tokens :
         IF verifyAuth(token) # 0
         THEN reqs' = Append(reqs, LogoutReq(NoUser, "done", 401))
         ELSE reqs' = Append(reqs, LogoutReq(token, "signOut", 0))
    /\ UNCHANGED <<interactions, matches, messages, avatar_url, profile_photos, objects, clock, session,
                 identities, profiles, profile_details>>

\* Lines 95-101: supabase.auth.signOut() ends the session the shared client
\* holds, whoever signed it in.
LogoutSignOut(i) ==
    LET r == reqs[i] IN
    /\ r.kind = "logout" /\ r.pc = "signOut"
    /\ session' = NoUser
    /\ reqs' = [reqs EXCEPT ![i] = [r EXCEPT !.pc = "done", !.status = 200, !.calls = @ + 1]]
    /\ UNCHANGED <<interactions, matches, messages, avatar_url, profile_photos, objects, clock,
                 identities, profiles, profile_details>>

VerifyReq(user, status) ==
    [kind |-> "verify", user |-> user, pc |-> "done", status |-> status, calls |-> 0]

\* POST /api/auth/verify: verifyAuth, then lines 133-136 answer at once.
Verify ==
    /\ \E token \in Tokens :
         IF verifyAuth(token) # 0
         THEN reqs' = Append(reqs, VerifyReq(NoUser, 401))
         ELSE reqs' = Append(reqs, VerifyReq(token, 200))
    /\ UNCHANGED <<interactions, matches, messages, avatar_url, profile_photos, objects, clock, session,
                 identities, profiles, profile_details>>

BadToken == 9
RefreshTokenInputs == {NoUser, 1, 2, BadToken}

RefreshReq(token, pc, status) ==
    [kind |-> "refresh", user |-> NoUser, token |-> token, pc |-> pc, status |-> status,
     calls |-> 0]

\* POST /api/auth/refresh arrives: no verifyAuth; lines 109-113.
StartRefresh ==
    /\ \E token \in RefreshTokenInputs :
         reqs' = Append(reqs,
             IF token = NoUser
             THEN RefreshReq(token, "done", 400)
             ELSE RefreshReq(token, "refreshSession", 0))
    /\ UNCHANGED <<interactions, matches, messages, avatar_url, profile_photos, objects, clock, session,
                 identities, profiles, profile_details>>

\* Lines 115-126: supabase.auth.refreshSession on the shared client, which
\* keeps the refreshed session; a token the service does not know is a 401.
RefreshSession(i) ==
    LET r == reqs[i] IN
    /\ r.kind = "refresh" /\ r.pc = "refreshSession"
    /\ IF \E a \in identities : a.user = r.token
       THEN /\ session' = r.token
            /\ reqs' = [reqs EXCEPT ![i] = [r EXCEPT !.pc = "done", !.status = 200,
                                                   !.user = r.token, !.calls = @ + 1]]
       ELSE /\ UNCHANGED session
            /\ reqs' = [reqs EXCEPT ![i] = [r EXCEPT !.pc = "done", !.status = 401,
                                                   !.calls = @ + 1]]
    /\ UNCHANGED <<interactions, matches, messages, avatar_url, profile_photos, objects, clock,
                 identities, profiles, profile_details>>

(***************************************************************************)
(* routes/auth.ts: register                                                *)
(***************************************************************************)
\* The body of a registration: "" stands for a missing field.  The age is
\* whatever JSON value the client sent, here "25" or a word.
RegisterEmailInputs == {NoEmail, "u1@dayo", "new@dayo"}
RegisterPasswordInputs == {"", "pw9"}
RegisterNameInputs == {"", "Ana"}
AgeInputs == {"", "25", "abc"}

\* profiles: id PRIMARY KEY, email UNIQUE NOT NULL, age integer NOT NULL.
ProfileInsertError(rows, id, email, age) ==
    IF age # "25" THEN "invalid input syntax for type integer"
    ELSE IF \E p \in rows : p.id = id \/ p.email = email THEN "duplicate key"
    ELSE "none"

\* profile_details: user_id UNIQUE NOT NULL REFERENCES profiles(id).
DetailsInsertError(rows, id) ==
    IF ~\E p \in profiles : p.id = id THEN "violates foreign key constraint"
    ELSE IF \E d \in rows : d.user_id = id THEN "duplicate key"
    ELSE "none"

RegisterReq(email, password, name, age, pc, status) ==
    [kind |-> "register", user |-> NoUser, email |-> email, password |-> password,
     name |-> name, age |-> age, pc |-> pc, status |-> status, calls |-> 0]

\* POST /api/auth/register arrives: no verifyAuth; lines 10-14.
StartRegister ==
    /\ \E email \in RegisterEmailInputs, password \in RegisterPasswordInputs,
          name \in RegisterNameInputs, age \in AgeInputs :
         reqs' = Append(reqs,
             IF email = NoEmail \/ password = "" \/ name = "" \/ age = ""
             THEN RegisterReq(email, password, name, age, "done", 400)
             ELSE RegisterReq(email, password, name, age, "signUp", 0))
    /\ UNCHANGED <<interactions, matches, messages, avatar_url, profile_photos, objects, clock, session,
                 identities, profiles, profile_details>>

\* Lines 16-23: supabase.auth.signUp creates the identity, or refuses an
\* email that has one.
RegisterSignUp(i) ==
    LET r == reqs[i]
        id == NewId(identities)
    IN
    /\ r.kind = "register" /\ r.pc = "signUp"
    /\ IF \E a \in identities : a.email = r.email
       THEN /\ reqs' = [reqs EXCEPT ![i] = [r EXCEPT !.pc = "done", !.status = 400,
                                                   !.calls = @ + 1]]
            /\ UNCHANGED identities
       ELSE /\ identities' = identities \cup
                    {[email |-> r.email, password |-> r.password, user |-> id]}
            /\ reqs' = [reqs EXCEPT ![i] = [r EXCEPT !.pc = "insertProfile", !.user = id,
                                                   !.calls = @ + 1]]
    /\ UNCHANGED <<interactions, matches, messages, avatar_url, profile_photos, objects, clock,
                 session, profiles, profile_details>>

\* Lines 16-23 when the auth service fails: 400, no identity.
RegisterSignUpFails(i) ==
    LET r == reqs[i] IN
    /\ r.kind = "register" /\ r.pc = "signUp"
    /\ reqs' = [reqs EXCEPT ![i] = [r EXCEPT !.pc = "done", !.status = 400, !.calls = @ + 1]]
    /\ UNCHANGED <<interactions, matches, messages, avatar_url, profile_photos, objects, clock, session,
                 identities, profiles, profile_details>>

\* Lines 25-37: insert the profile row; any error is a 400.
RegisterInsertProfile(i) ==
    LET r == reqs[i]
        err == ProfileInsertError(profiles, r.user, r.email, r.age)
    IN
    /\ r.kind = "register" /\ r.pc = "insertProfile"
    /\ IF err # "none"
       THEN /\ reqs' = [reqs EXCEPT ![i] = [r EXCEPT !.pc = "done", !.status = 400,
                                                   !.calls = @ + 1]]
            /\ UNCHANGED profiles
       ELSE /\ profiles' = profiles \cup {[id |-> r.user, email |-> r.email]}
            /\ reqs' = [reqs EXCEPT ![i] = [r EXCEPT !.pc = "insertDetails", !.calls = @ + 1]]
    /\ UNCHANGED <<interactions, matches, messages, avatar_url, profile_photos, objects, clock,
                 session, identities, profile_details>>

\* Lines 25-37 when the store fails: 400, the identity stays.
RegisterInsertProfileFails(i) ==
    LET r == reqs[i] IN
    /\ r.kind = "register" /\ r.pc = "insertProfile"
    /\ reqs' = [reqs EXCEPT ![i] = [r EXCEPT !.pc = "done", !.status = 400, !.calls = @ + 1]]
    /\ UNCHANGED <<interactions, matches, messages, avatar_url, profile_photos, objects, clock, session,
                 identities, profiles, profile_details>>

\* Lines 39-47: insert the profile_details row; any error is a 400.
RegisterInsertDetails(i) ==
    LET r == reqs[i]
        err == DetailsInsertError(profile_details, r.user)
    IN
    /\ r.kind = "register" /\ r.pc = "insertDetails"
    /\ IF err # "none"
       THEN /\ reqs' = [reqs EXCEPT ![i] = [r EXCEPT !.pc = "done", !.status = 400,
                                                   !.calls = @ + 1]]
            /\ UNCHANGED profile_details
       ELSE /\ profile_details' = profile_details \cup {[user_id |-> r.user]}
            /\ reqs' = [reqs EXCEPT ![i] = [r EXCEPT !.pc = "signIn", !.calls = @ + 1]]
    /\ UNCHANGED <<interactions, matches, messages, avatar_url, profile_photos, objects, clock,
                 session, identities, profiles>>

\* Lines 39-47 when the store fails: 400, the identity and the profile stay.
RegisterInsertDetailsFails(i) ==
    LET r == reqs[i] IN
    /\ r.kind = "register" /\ r.pc = "insertDetails"
    /\ reqs' = [reqs EXCEPT ![i] = [r EXCEPT !.pc = "done", !.status = 400, !.calls = @ + 1]]
    /\ UNCHANGED <<interactions, matches, messages, avatar_url, profile_photos, objects, clock, session,
                 identities, profiles, profile_details>>

\* Lines 49-61: sign in on the shared client, which keeps the session; 201.
RegisterSignIn(i) ==
    LET r == reqs[i]
        res == SignIn(r.email, r.password)
    IN
    /\ r.kind = "register" /\ r.pc = "signIn"
    /\ IF res.error # "none"
       THEN /\ reqs' = [reqs EXCEPT ![i] = [r EXCEPT !.pc = "done", !.status = 400,
                                                   !.calls = @ + 1]]
            /\ UNCHANGED session
       ELSE /\ reqs' = [reqs EXCEPT ![i] = [r EXCEPT !.pc = "done", !.status = 201,
                                                   !.calls = @ + 1]]
            /\ session' = res.user
    /\ UNCHANGED <<interactions, matches, messages, avatar_url, profile_photos, objects, clock,
                 identities, profiles, profile_details>>

\* Lines 49-56 when the auth service fails: 400, everything stored stays.
RegisterSignInFails(i) ==
    LET r == reqs[i] IN
    /\ r.kind = "register" /\ r.pc = "signIn"
    /\ reqs' = [reqs EXCEPT ![i] = [r EXCEPT !.pc = "done", !.status = 400, !.calls = @ + 1]]
    /\ UNCHANGED <<interactions, matches, messages, avatar_url, profile_photos, objects, clock, session,
                 identities, profiles, profile_details>>

Init ==
    /\ interactions = {}
    /\ matches = {}
    /\ messages = {}
    /\ avatar_url = [u \in Users |-> NULL]
    /\ profile_photos = {}
    /\ objects = {}
    /\ clock = 1
    /\ session = NoUser
    /\ identities = Accounts
    /\ profiles = InitProfiles
    /\ profile_details = InitDetails
    /\ reqs = <<>>

Next ==
    \/ StartInteraction
    \/ \E i \in DOMAIN reqs : InsertInteraction(i)
    \/ \E i \in DOMAIN reqs : QueryReciprocal(i)
    \/ \E i \in DOMAIN reqs : InsertMatch(i)

Spec == Init /\ [][Next]_vars

\* The interaction route over a store whose calls may also fail transiently.
NextFault ==
    \/ Next
    \/ \E i \in DOMAIN reqs : InsertInteractionFails(i)
    \/ \E i \in DOMAIN reqs : QueryReciprocalFails(i)
    \/ \E i \in DOMAIN reqs : InsertMatchFails(i)

SpecFault == Init /\ [][NextFault]_vars

\* The interaction route over a store a failed promotion leaves behind (the
\* match insert failed, or the process stopped before it): users 1 and 2
\* have liked each other and there is no match row.
InitOrphan ==
    /\ interactions =
         {[id |-> 1, user_id |-> 1, target_user_id |-> 2, interaction_type |-> "like"],
          [id |-> 2, user_id |-> 2, target_user_id |-> 1, interaction_type |-> "like"]}
    /\ matches = {}
    /\ messages = {}
    /\ avatar_url = [u \in Users |-> NULL]
    /\ profile_photos = {}
    /\ objects = {}
    /\ clock = 1
    /\ session = NoUser
    /\ identities = Accounts
    /\ profiles = InitProfiles
    /\ profile_details = InitDetails
    /\ reqs = <<>>

SpecRecover == InitOrphan /\ [][Next]_vars

\* A state the interaction routes and one sendMessage lead to: users 1 and 2
\* have liked each other and are matched, and 1 has sent 2 a message.
InitMsg ==
    /\ interactions =
         {[id |-> 1, user_id |-> 1, target_user_id |-> 2, interaction_type |-> "like"],
          [id |-> 2, user_id |-> 2, target_user_id |-> 1, interaction_type |-> "like"]}
    /\ matches = {[id |-> 1, user_id_1 |-> 1, user_id_2 |-> 2]}
    /\ messages = {[id |-> 1, match_id |-> 1, sender_id |-> 1, content |-> <<"h">>,
                    read_at |-> NULL, created_at |-> 1]}
    /\ avatar_url = [u \in Users |-> NULL]
    /\ profile_photos = {}
    /\ objects = {}
    /\ clock = 1
    /\ session = NoUser
    /\ identities = Accounts
    /\ profiles = InitProfiles
    /\ profile_details = InitDetails
    /\ reqs = <<>>

NextMsg ==
    \/ StartSend
    \/ \E i \in DOMAIN reqs : SendFetchMatch(i)
    \/ \E i \in DOMAIN reqs : SendInsertMessage(i)
    \/ StartList
    \/ \E i \in DOMAIN reqs : ListFetchMatch(i)
    \/ \E i \in DOMAIN reqs : ListQueryMessages(i)
    \/ StartRead
    \/ \E i \in DOMAIN reqs : ReadFetchMessage(i)
    \/ \E i \in DOMAIN reqs : ReadFetchMatch(i)
    \/ \E i \in DOMAIN reqs : ReadUpdate(i)

SpecMsg == InitMsg /\ [][NextMsg]_vars


\* The indices of the files of request i, none if it is not an upload.
FileIndices(i) == IF reqs[i].kind = "photos" THEN DOMAIN reqs[i].files ELSE {}

\* The routes behind verifyAuth, over a store the interaction and message
\* routes lead to: users 1 and 2 have liked each other and are matched, 1 has
\* sent 2 a message, 1 has passed 3 and 3 has liked 1.
MaxAllReqs == 1

InitAll ==
    /\ interactions =
         {[id |-> 1, user_id |-> 1, target_user_id |-> 2, interaction_type |-> "like"],
          [id |-> 2, user_id |-> 2, target_user_id |-> 1, interaction_type |-> "like"],
          [id |-> 3, user_id |-> 1, target_user_id |-> 3, interaction_type |-> "pass"],
          [id |-> 4, user_id |-> 3, target_user_id |-> 1, interaction_type |-> "like"]}
    /\ matches = {[id |-> 1, user_id_1 |-> 1, user_id_2 |-> 2]}
    /\ messages = {[id |-> 1, match_id |-> 1, sender_id |-> 1, content |-> <<"h">>,
                    read_at |-> NULL, created_at |-> 1]}
    /\ avatar_url = [u \in Users |-> NULL]
    /\ profile_photos = {}
    /\ objects = {}
    /\ clock = 1
    /\ session = NoUser
    /\ identities = Accounts
    /\ profiles = InitProfiles
    /\ profile_details = InitDetails
    /\ reqs = <<>>

NextAll ==
    \/ Len(reqs) < MaxAllReqs /\ StartInteraction
    \/ \E i \in DOMAIN reqs : InsertInteraction(i)
    \/ \E i \in DOMAIN reqs : QueryReciprocal(i)
    \/ \E i \in DOMAIN reqs : InsertMatch(i)
    \/ Len(reqs) < MaxAllReqs /\ StartSend
    \/ \E i \in DOMAIN reqs : SendFetchMatch(i)
    \/ \E i \in DOMAIN reqs : SendInsertMessage(i)
    \/ Len(reqs) < MaxAllReqs /\ StartList
    \/ \E i \in DOMAIN reqs : ListFetchMatch(i)
    \/ \E i \in DOMAIN reqs : ListQueryMessages(i)
    \/ Len(reqs) < MaxAllReqs /\ StartRead
    \/ \E i \in DOMAIN reqs : ReadFetchMessage(i)
    \/ \E i \in DOMAIN reqs : ReadFetchMatch(i)
    \/ \E i \in DOMAIN reqs : ReadUpdate(i)
    \/ Len(reqs) < MaxAllReqs /\ StartGetMatch
    \/ \E i \in DOMAIN reqs : GetMatchFetch(i)
    \/ Len(reqs) < MaxAllReqs /\ StartFeed
    \/ \E i \in DOMAIN reqs : FeedQuery(i)
    \/ Len(reqs) < MaxAllReqs /\ StartAvatar
    \/ \E i \in DOMAIN reqs : AvatarUpload(i)
    \/ \E i \in DOMAIN reqs : AvatarUpdateProfile(i)
    \/ Len(reqs) < MaxAllReqs /\ StartPhotos
    \/ \E i \in DOMAIN reqs : \E k \in FileIndices(i) : PhotoUpload(i, k)
    \/ \E i \in DOMAIN reqs : \E k \in FileIndices(i) : PhotoInsert(i, k)
    \/ Len(reqs) < MaxAllReqs /\ StartLogout
    \/ \E i \in DOMAIN reqs : LogoutSignOut(i)
    \/ Len(reqs) < MaxAllReqs /\ Verify

SpecAll == InitAll /\ [][NextAll]_vars

\* The photo delete route, over a store two uploads lead to: users 1 and 2
\* each have one profile photo, stored as objects 1 and 2.
MaxDeleteReqs == 2

InitPhotos ==
    /\ interactions = {}
    /\ matches = {}
    /\ messages = {}
    /\ avatar_url = [u \in Users |-> NULL]
    /\ profile_photos = {[id |-> 1, user_id |-> 1, photo_url |-> 1, order |-> 0],
                         [id |-> 2, user_id |-> 2, photo_url |-> 2, order |-> 0]}
    /\ objects = {[bucket |-> "profile-photos", folder |-> 1, id |-> 1,
                   contentType |-> "image/png"],
                  [bucket |-> "profile-photos", folder |-> 2, id |-> 2,
                   contentType |-> "image/png"]}
    /\ clock = 1
    /\ session = NoUser
    /\ identities = Accounts
    /\ profiles = InitProfiles
    /\ profile_details = InitDetails
    /\ reqs = <<>>

NextDelete ==
    \/ Len(reqs) < MaxDeleteReqs /\ StartDelete
    \/ \E i \in DOMAIN reqs : DeleteFetchPhoto(i)
    \/ \E i \in DOMAIN reqs : DeleteRemoveObject(i)
    \/ \E i \in DOMAIN reqs : DeleteRow(i)

SpecDelete == InitPhotos /\ [][NextDelete]_vars

\* The same route over stores whose calls may also fail.
NextDeleteFault ==
    \/ NextDelete
    \/ \E i \in DOMAIN reqs : DeleteFetchPhotoFails(i)
    \/ \E i \in DOMAIN reqs : DeleteRemoveObjectFails(i)
    \/ \E i \in DOMAIN reqs : DeleteRowFails(i)

SpecDeleteFault == InitPhotos /\ [][NextDeleteFault]_vars

\* The login, logout and refresh routes; the shared client starts without a
\* session.
MaxAuthReqs == 2

NextAuth ==
    \/ Len(reqs) < MaxAuthReqs /\ StartLogin
    \/ \E i \in DOMAIN reqs : LoginSignIn(i)
    \/ Len(reqs) < MaxAuthReqs /\ StartLogout
    \/ \E i \in DOMAIN reqs : LogoutSignOut(i)
    \/ Len(reqs) < MaxAuthReqs /\ StartRefresh
    \/ \E i \in DOMAIN reqs : RefreshSession(i)

SpecAuth == Init /\ [][NextAuth]_vars

\* The registration route, with the three users already registered, over
\* stores whose calls may also fail.
MaxRegisterReqs == 2

NextRegister ==
    \/ Len(reqs) < MaxRegisterReqs /\ StartRegister
    \/ \E i \in DOMAIN reqs : RegisterSignUp(i)
    \/ \E i \in DOMAIN reqs : RegisterInsertProfile(i)
    \/ \E i \in DOMAIN reqs : RegisterInsertDetails(i)
    \/ \E i \in DOMAIN reqs : RegisterSignIn(i)

NextRegisterFault ==
    \/ NextRegister
    \/ \E i \in DOMAIN reqs : RegisterSignUpFails(i)
    \/ \E i \in DOMAIN reqs : RegisterInsertProfileFails(i)
    \/ \E i \in DOMAIN reqs : RegisterInsertDetailsFails(i)
    \/ \E i \in DOMAIN reqs : RegisterSignInFails(i)

SpecRegister == Init /\ [][NextRegisterFault]_vars

NextUpload ==
    \/ StartAvatar
    \/ \E i \in DOMAIN reqs : AvatarUpload(i)
    \/ \E i \in DOMAIN reqs : AvatarUpdateProfile(i)
    \/ StartPhotos
    \/ \E i \in DOMAIN reqs : \E k \in DOMAIN reqs[i].files : PhotoUpload(i, k)
    \/ \E i \in DOMAIN reqs : \E k \in DOMAIN reqs[i].files : PhotoInsert(i, k)

SpecUpload == Init /\ [][NextUpload]_vars

\* The upload routes over stores whose calls may also fail.
NextUploadFault ==
    \/ NextUpload
    \/ \E i \in DOMAIN reqs : \E k \in DOMAIN reqs[i].files : PhotoUploadFails(i, k)
    \/ \E i \in DOMAIN reqs : \E k \in DOMAIN reqs[i].files : PhotoInsertFails(i, k)

SpecUploadFault == Init /\ [][NextUploadFault]_vars

(***************************************************************************)
(* Properties of POST /api/interactions (checked under Spec).              *)
(***************************************************************************)
IsInteract(i) == reqs[i].kind = "interact"

\* Request i is a like that has responded 201.
LikeDone(i) ==
    /\ IsInteract(i)
    /\ reqs[i].pc = "done" /\ reqs[i].status = 201
    /\ reqs[i].itype = "like"

\* Requests i and j are completed likes of two distinct users A and B,
\* i being like(A->B) and j like(B->A).
OppositeLikes(i, j) ==
    /\ LikeDone(i) /\ LikeDone(j)
    /\ reqs[i].user # reqs[i].target
    /\ reqs[j].user = reqs[i].target /\ reqs[j].target = reqs[i].user

\* Requests i and j overlapped: neither had responded when the other arrived.
Concurrent(i, j) == i # j /\ i \notin reqs[j].after /\ j \notin reqs[i].after

MatchRows(a, b) == {m \in matches : {m.user_id_1, m.user_id_2} = {a, b}}

LikeRow(a, b) ==
    \E r \in interactions :
        r.user_id = a /\ r.target_user_id = b /\ r.interaction_type = "like"

C2_DuplicateMatchReportsMatched ==
    \A i \in DOMAIN reqs :
        (IsInteract(i) /\ reqs[i].pc = "done" /\ reqs[i].matchError = "duplicate key")
            => (reqs[i].status = 201 /\ reqs[i].matched)

\* C3: when two users like each other, no duplicate match row exists and at
\* most one of the two like responses reports matched: true.
C3_AtMostOneMatchedResponse ==
    /\ \A m, n \in matches :
          {m.user_id_1, m.user_id_2} = {n.user_id_1, n.user_id_2} => m = n
    /\ \A i, j \in DOMAIN reqs :
          OppositeLikes(i, j) => ~(reqs[i].matched /\ reqs[j].matched)

\* Two overlapping opposite likes, one of which lost the race on the match
\* insert.
C3_Witness ==
    \E i, j \in DOMAIN reqs :
        /\ OppositeLikes(i, j)
        /\ Concurrent(i, j)
        /\ reqs[i].matched /\ reqs[j].matchError = "duplicate key"

\* C4: recording a triple that already exists fails with Conflict (409), and
\* interactions never holds two rows with the same
\* (user_id, target_user_id, interaction_type).
C4_DuplicateIsConflict ==
    /\ \A i \in DOMAIN reqs :
          (IsInteract(i) /\ reqs[i].insertError = "duplicate key")
              => (reqs[i].pc = "done" /\ reqs[i].status = 409)
    /\ \A r, q \in interactions :
          ( /\ r.user_id = q.user_id
            /\ r.target_user_id = q.target_user_id
            /\ r.interaction_type = q.interaction_type ) => r = q

\* C5: an interaction whose target is the authenticated caller fails with
\* 400 without a single store call; no self-row ever reaches the tables.
C5_SelfInteractionRejected ==
    /\ \A i \in DOMAIN reqs :
          (IsInteract(i) /\ reqs[i].user # NoUser /\ reqs[i].target = reqs[i].user)
              => (reqs[i].pc = "done" /\ reqs[i].status = 400 /\ reqs[i].calls = 0)
    /\ \A r \in interactions : r.user_id # r.target_user_id
    /\ \A m \in matches : m.user_id_1 # m.user_id_2

C5_Witness ==
    \E i \in DOMAIN reqs :
        /\ IsInteract(i) /\ reqs[i].user # NoUser
        /\ reqs[i].target = reqs[i].user /\ reqs[i].itype = "like"
        /\ reqs[i].pc = "done"

C11_UnknownTypeRejected ==
    /\ [](\A i \in DOMAIN reqs :
            ( /\ IsInteract(i) /\ reqs[i].user # NoUser /\ reqs[i].pc = "done"
              /\ reqs[i].itype \notin {"like", "pass", "favorite", "archive", "comment"} )
                => reqs[i].status = 400)
    /\ [][\A i \in DOMAIN reqs :
            ( /\ IsInteract(i) /\ reqs'[i] # reqs[i]
              /\ reqs[i].itype \notin {"like", "pass", "favorite", "archive", "comment"} )
                => /\ interactions' = interactions
                   /\ matches' = matches
                   /\ reqs'[i].pc = "done"]_vars

\* A request of type "wink" toward another user has reached the store and
\* has been answered.
C11_Witness ==
    \E i \in DOMAIN reqs :
        /\ IsInteract(i) /\ reqs[i].itype = "wink" /\ reqs[i].pc = "done"
        /\ reqs[i].insertError = "violates check constraint"

\* C12: recording an interaction never deletes or updates a stored
\* interaction row: every row of a state is a row of the next state.
C12_InteractionsOnlyGrow ==
    [][\A r \in interactions : r \in interactions']_vars

\* A's like of B is still there after A's later pass of B was recorded.
C12_Witness ==
    \E r, q \in interactions :
        /\ r.user_id = q.user_id /\ r.target_user_id = q.target_user_id
        /\ r.interaction_type = "like" /\ q.interaction_type = "pass"
        /\ r.id < q.id

\* C13: a like response reports matched: true only if, when it is sent, a
\* match row for the pair {caller, target} exists; store calls may fail.
C13_MatchedImpliesRow ==
    \A i \in DOMAIN reqs :
        (IsInteract(i) /\ reqs[i].pc = "done" /\ reqs[i].matched)
            => MatchRows(reqs[i].user, reqs[i].target) # {}

\* One like was answered matched: true, and another reciprocated like was
\* answered after its match insert failed in the store.
C13_Witness ==
    \E i, j \in DOMAIN reqs :
        /\ IsInteract(i) /\ reqs[i].pc = "done" /\ reqs[i].matched
        /\ IsInteract(j) /\ reqs[j].pc = "done" /\ reqs[j].matchError = StoreFault

\* C22: every match row has user_id_1 < user_id_2 and no two match rows are
\* for the same unordered pair, whichever user's like made the match.
C22_CanonicalPairs ==
    /\ \A m \in matches : m.user_id_1 < m.user_id_2
    /\ \A m, n \in matches :
          {m.user_id_1, m.user_id_2} = {n.user_id_1, n.user_id_2} => m = n

\* The like of the user with the higher id made a match, stored lower id first.
C22_Witness ==
    \E i \in DOMAIN reqs :
        /\ IsInteract(i) /\ reqs[i].pc = "done" /\ reqs[i].matched
        /\ reqs[i].user > reqs[i].target
        /\ \E m \in matches : m.user_id_1 = reqs[i].target /\ m.user_id_2 = reqs[i].user

\* C23 as claimed: when both likes A->B and B->A are recorded and no match
\* row exists, a later like by either side toward the other creates the match.
C23_LaterLikeRecovers ==
    \A i \in DOMAIN reqs :
        ( /\ IsInteract(i) /\ reqs[i].user # NoUser /\ reqs[i].pc = "done"
          /\ reqs[i].itype = "like"
          /\ LikeRow(reqs[i].user, reqs[i].target)
          /\ LikeRow(reqs[i].target, reqs[i].user) )
            => MatchRows(reqs[i].user, reqs[i].target) # {}

\* Some store call of request i failed for a reason other than a constraint.
StoreCallFailed(i) ==
    StoreFault \in {reqs[i].insertError, reqs[i].queryError, reqs[i].matchError}

\* C24 as claimed: an interaction request one of whose store calls failed
\* for a reason other than a constraint never answers 201.
C24_FailureIsError ==
    \A i \in DOMAIN reqs :
        (IsInteract(i) /\ reqs[i].pc = "done" /\ StoreCallFailed(i))
            => reqs[i].status >= 400

\* C27: a match row for {A, B} exists only if the likes A->B and B->A both
\* exist; an interaction of another type never creates a match and never
\* reports matched: true.
C27_MatchNeedsBothLikes ==
    /\ [](\A m \in matches :
            LikeRow(m.user_id_1, m.user_id_2) /\ LikeRow(m.user_id_2, m.user_id_1))
    /\ [](\A i \in DOMAIN reqs :
            (IsInteract(i) /\ reqs[i].itype # "like")
                => (~reqs[i].matched /\ reqs[i].pc \in {"insertInteraction", "done"}))
    /\ [][\A i \in DOMAIN reqs :
            (IsInteract(i) /\ reqs[i].itype # "like" /\ reqs'[i] # reqs[i])
                => matches' = matches]_vars

\* User 1 passed user 2, who had liked user 1: answered 201 with matched:
\* false, and there is no match row for the pair.
C27_Witness ==
    \E i \in DOMAIN reqs :
        /\ IsInteract(i) /\ reqs[i].itype = "pass"
        /\ reqs[i].pc = "done" /\ reqs[i].status = 201 /\ ~reqs[i].matched
        /\ LikeRow(reqs[i].target, reqs[i].user)
        /\ MatchRows(reqs[i].user, reqs[i].target) = {}

(***************************************************************************)
(* Properties of the message routes (checked under SpecMsg).               *)
(***************************************************************************)
\* Request i is a sendMessage on an existing match by an authenticated user
\* who is neither of the match's two users.
OutsiderSend(i) ==
    /\ reqs[i].kind = "send" /\ reqs[i].user # NoUser
    /\ \E m \in matches :
          m.id = reqs[i].matchId /\ reqs[i].user \notin {m.user_id_1, m.user_id_2}

NoRowSentBy(i) ==
    /\ reqs[i].message = 0
    /\ ~\E m \in messages : m.match_id = reqs[i].matchId /\ m.sender_id = reqs[i].user

\* C6 as claimed: sendMessage on an existing match by a non-participant
\* fails with 403 and the messages table is unchanged.
C6_OutsiderForbidden ==
    \A i \in DOMAIN reqs :
        (OutsiderSend(i) /\ reqs[i].pc = "done")
            => (reqs[i].status = 403 /\ NoRowSentBy(i))

\* C6 as amended: such a request never adds a message row; it fails with
\* 403 when its content is not blank and with 400 when it is.
C6_OutsiderRejected ==
    \A i \in DOMAIN reqs :
        OutsiderSend(i)
            => /\ NoRowSentBy(i)
               /\ reqs[i].pc # "insertMessage"
               /\ reqs[i].pc = "done" =>
                     reqs[i].status = (IF Len(Trim(reqs[i].content)) = 0 THEN 400 ELSE 403)

C6_Witness ==
    \E i \in DOMAIN reqs :
        /\ OutsiderSend(i) /\ reqs[i].pc = "done"
        /\ Len(Trim(reqs[i].content)) > 0
        /\ reqs[i].status = 403

\* Request i is a sendMessage of an authenticated caller.
IsSend(i) == reqs[i].kind = "send" /\ reqs[i].user # NoUser

MatchExists(id) == \E m \in matches : m.id = id

IsParticipant(u, id) == \E m \in matches : m.id = id /\ u \in {m.user_id_1, m.user_id_2}

\* C14 as claimed: sendMessage fails with 404 when the match id does not
\* exist and with 400 when the content is blank, and adds no message row.
C14_NotFoundAndBlank ==
    \A i \in DOMAIN reqs :
        (IsSend(i) /\ reqs[i].pc = "done")
            => /\ ~MatchExists(reqs[i].matchId) => (reqs[i].status = 404 /\ NoRowSentBy(i))
               /\ Len(Trim(reqs[i].content)) = 0 => (reqs[i].status = 400 /\ NoRowSentBy(i))

\* C14 as amended: blank content fails with 400 whatever the match id is; a
\* match id that does not exist fails with 404 when the content is not
\* blank; no step of either request changes the messages table.
C14_BlankThenNotFound ==
    /\ [](\A i \in DOMAIN reqs :
            (IsSend(i) /\ reqs[i].pc = "done")
                => /\ Len(Trim(reqs[i].content)) = 0 => reqs[i].status = 400
                   /\ (Len(Trim(reqs[i].content)) > 0 /\ ~MatchExists(reqs[i].matchId))
                          => reqs[i].status = 404)
    /\ [][\A i \in DOMAIN reqs' :
            ( /\ reqs'[i].kind = "send" /\ reqs'[i].user # NoUser
              /\ (i \in DOMAIN reqs => reqs[i] # reqs'[i])
              /\ \/ Len(Trim(reqs'[i].content)) = 0
                 \/ ~MatchExists(reqs'[i].matchId) )
                => /\ messages' = messages
                   /\ reqs'[i].pc # "insertMessage"]_vars

\* A whitespace-only message to an existing match was answered 400 and a
\* non-blank message to a match id that does not exist was answered 404.
C14_Witness ==
    \E i, j \in DOMAIN reqs :
        /\ IsSend(i) /\ reqs[i].pc = "done" /\ reqs[i].status = 400
        /\ reqs[i].content = <<" ">> /\ MatchExists(reqs[i].matchId)
        /\ IsSend(j) /\ reqs[j].pc = "done" /\ reqs[j].status = 404
        /\ Len(Trim(reqs[j].content)) > 0

\* C15: sendMessage by a participant with non-blank content adds exactly one
\* message row, with the match id, sender_id the caller and read_at unset,
\* and answers 201 with that row; a listMessages of the other participant
\* that queries afterwards (first page, default limit) contains the row.
C15_SendAppendsOneRow ==
    /\ [](\A i \in DOMAIN reqs :
            ( /\ IsSend(i) /\ reqs[i].pc = "done"
              /\ Len(Trim(reqs[i].content)) > 0
              /\ IsParticipant(reqs[i].user, reqs[i].matchId) )
                => /\ reqs[i].status = 201
                   /\ \E m \in messages :
                         /\ m.id = reqs[i].message
                         /\ m.match_id = reqs[i].matchId
                         /\ m.sender_id = reqs[i].user
                         /\ m.content = Trim(reqs[i].content))
    /\ [][\A i \in DOMAIN reqs :
            (reqs[i].kind = "send" /\ reqs[i].pc = "insertMessage" /\ reqs'[i].pc = "done")
                => \E m \in messages' :
                      /\ m \notin messages
                      /\ messages' = messages \cup {m}
                      /\ m.read_at = NULL
                      /\ m.id = reqs'[i].message
                      /\ \A n \in messages : n.id # m.id]_vars
    /\ [][\A i, j \in DOMAIN reqs :
            ( /\ reqs[i].kind = "list" /\ reqs[i].pc = "queryMessages"
              /\ reqs'[i].pc = "done"
              /\ reqs[i].offset = 0 /\ reqs[i].limit = DefaultLimit
              /\ IsSend(j) /\ reqs[j].pc = "done" /\ reqs[j].status = 201
              /\ reqs[j].matchId = reqs[i].matchId /\ reqs[j].user # reqs[i].user )
                => /\ reqs'[i].status = 200
                   /\ \E k \in DOMAIN reqs'[i].result :
                         reqs'[i].result[k].id = reqs[j].message]_vars

\* User 1 sent a message to the match and user 2's list contains it.
C15_Witness ==
    \E i, j \in DOMAIN reqs :
        /\ IsSend(j) /\ reqs[j].pc = "done" /\ reqs[j].status = 201
        /\ reqs[i].kind = "list" /\ reqs[i].pc = "done" /\ reqs[i].status = 200
        /\ reqs[i].user # reqs[j].user
        /\ \E k \in DOMAIN reqs[i].result :
              /\ reqs[i].result[k].id = reqs[j].message
              /\ reqs[i].result[k].read_at = NULL

\* C7: the list GET /api/messages/:matchId returns to a participant is in
\* nondecreasing created_at order, for any match, limit and offset.
C7_ListOldestFirst ==
    \A i \in DOMAIN reqs :
        (reqs[i].kind = "list" /\ reqs[i].pc = "done" /\ reqs[i].status = 200)
            => \A k, l \in DOMAIN reqs[i].result :
                  k < l => reqs[i].result[k].created_at <= reqs[i].result[l].created_at

\* A page of two messages written at different times.
C7_Witness ==
    \E i \in DOMAIN reqs :
        /\ reqs[i].kind = "list" /\ reqs[i].pc = "done" /\ reqs[i].status = 200
        /\ Len(reqs[i].result) = 2
        /\ reqs[i].result[1].created_at # reqs[i].result[2].created_at

\* C8: read_at is monotonic: a message whose read_at is set keeps a non-null
\* read_at in every later state, and after every successful markRead the
\* message's read_at is non-null (also after the second call on it).
C8_ReadAtMonotonic ==
    /\ [](\A i \in DOMAIN reqs :
            (reqs[i].kind = "read" /\ reqs[i].pc = "done" /\ reqs[i].status = 200)
                => \E m \in messages : m.id = reqs[i].messageId /\ m.read_at # NULL)
    /\ [][\A m \in messages :
            m.read_at # NULL => \E n \in messages' : n.id = m.id /\ n.read_at # NULL]_vars

\* markRead has succeeded twice on the same message.
C8_Witness ==
    \E i, j \in DOMAIN reqs :
        /\ i # j
        /\ reqs[i].kind = "read" /\ reqs[i].pc = "done" /\ reqs[i].status = 200
        /\ reqs[j].kind = "read" /\ reqs[j].pc = "done" /\ reqs[j].status = 200
        /\ reqs[i].messageId = reqs[j].messageId
        /\ \E m \in messages : m.id = reqs[i].messageId /\ m.read_at # NULL

(***************************************************************************)
(* Properties of the upload routes (checked under SpecUpload).             *)
(***************************************************************************)
\* C10: an avatar or profile-photo upload containing a file whose MIME type
\* is not an allowed one is rejected before any object-storage upload and
\* before any profile or profile_photos write.
C10_DisallowedTypeRejected ==
    /\ \A i \in DOMAIN reqs :
          ( /\ reqs[i].kind \in {"avatar", "photos"} /\ reqs[i].user # NoUser
            /\ \E k \in DOMAIN reqs[i].files :
                  reqs[i].files[k] \notin {"image/jpeg", "image/png", "image/webp"} )
              => (reqs[i].pc = "done" /\ reqs[i].status >= 400 /\ reqs[i].calls = 0)
    /\ \A o \in objects : o.contentType \in {"image/jpeg", "image/png", "image/webp"}

\* A batch whose second file is a PDF has been answered.
C10_Witness ==
    \E i \in DOMAIN reqs :
        /\ reqs[i].kind = "photos" /\ reqs[i].pc = "done"
        /\ reqs[i].files = <<"image/png", "application/pdf">>
        /\ reqs[i].status >= 400

\* C18: a profile-photo batch in which a file fails, at the object upload
\* or at the insert of its row, is answered with an error for the whole
\* batch, never with 201, also when other files of it were already stored.
C18_FailedBatchIsError ==
    \A i \in DOMAIN reqs :
        reqs[i].kind = "photos"
            => /\ (\E k \in DOMAIN reqs[i].files : reqs[i].filePc[k] = "failed")
                     => (reqs[i].pc = "done" /\ reqs[i].status >= 400)
               /\ reqs[i].status = 201
                     => \A k \in DOMAIN reqs[i].files : reqs[i].filePc[k] = "done"

\* The first file of a batch is stored and has its row, the second failed,
\* and the batch was answered with an error.
C18_Witness ==
    \E i \in DOMAIN reqs :
        /\ reqs[i].kind = "photos" /\ reqs[i].pc = "done" /\ reqs[i].status >= 400
        /\ Len(reqs[i].files) = 2
        /\ reqs[i].filePc[1] = "done" /\ reqs[i].filePc[2] = "failed"
        /\ \E p \in profile_photos : p.user_id = reqs[i].user /\ p.photo_url = reqs[i].url[1]

(***************************************************************************)
(* Properties of the routes behind verifyAuth (checked under SpecAll).     *)
(***************************************************************************)
\* Request i was sent by an authenticated user who is not in match id.
Outsider(i, id) == reqs[i].user # NoUser /\ MatchExists(id) /\ ~IsParticipant(reqs[i].user, id)

\* Request i is about to look up a match its caller is not a participant of:
\* the match of a listMessages or a getMatch, the match of the message of a
\* markRead.
OutsiderAtGate(i) ==
    /\ reqs[i].pc = "fetchMatch"
    /\ \/ reqs[i].kind \in {"list", "getMatch"} /\ Outsider(i, reqs[i].matchId)
       \/ reqs[i].kind = "read" /\ Outsider(i, reqs[i].message.match_id)

\* C16: listMessages, getMatch and markRead by an authenticated user who is
\* not a participant of the match answer 403 and return no message or match
\* data, and leave every message, so every read_at, as it was.
C16_OutsiderGetsNothing ==
    /\ [][\A i \in DOMAIN reqs :
            (OutsiderAtGate(i) /\ reqs'[i] # reqs[i])
                => /\ reqs'[i].pc = "done" /\ reqs'[i].status = 403
                   /\ reqs[i].kind = "list" => reqs'[i].result = <<>>
                   /\ reqs[i].kind = "getMatch" => reqs'[i].result = NoRow
                   /\ messages' = messages]_vars
    /\ [](\A i \in DOMAIN reqs :
            (reqs[i].kind \in {"list", "getMatch", "read"} /\ reqs[i].status = 403)
                => /\ reqs[i].pc = "done"
                   /\ reqs[i].kind = "list" => reqs[i].result = <<>>
                   /\ reqs[i].kind = "getMatch" => reqs[i].result = NoRow)

\* User 3 asked to mark a message of the match of users 1 and 2 as read and
\* was answered 403; the message is still unread.
C16_Witness ==
    \E i \in DOMAIN reqs :
        /\ reqs[i].kind = "read" /\ reqs[i].pc = "done" /\ reqs[i].status = 403
        /\ reqs[i].user # NoUser
        /\ \E m \in messages :
              /\ m.id = reqs[i].messageId /\ m.read_at = NULL
              /\ ~IsParticipant(reqs[i].user, m.match_id)

\* C17: on every route behind verifyAuth, a request without a bearer token
\* or with a token the auth service rejects is answered 401 and its handler
\* makes no call: nothing is read from or written to the tables or the
\* object store.
C17_NoUserNoCall ==
    /\ [](\A i \in DOMAIN reqs :
            (reqs[i].kind # "login" /\ reqs[i].user = NoUser)
                => (reqs[i].pc = "done" /\ reqs[i].status = 401 /\ reqs[i].calls = 0))
    /\ [][\A i \in DOMAIN reqs' :
            (reqs'[i].kind # "login" /\ reqs'[i].user = NoUser
                /\ (i \in DOMAIN reqs => reqs[i] # reqs'[i]))
                => /\ interactions' = interactions /\ matches' = matches
                   /\ messages' = messages /\ avatar_url' = avatar_url
                   /\ profile_photos' = profile_photos /\ objects' = objects]_vars

\* A photo upload without a valid token was answered 401.
C17_Witness ==
    \E i \in DOMAIN reqs :
        /\ reqs[i].kind = "photos" /\ reqs[i].user = NoUser
        /\ reqs[i].pc = "done" /\ reqs[i].status = 401

\* The users the caller of request i has liked, passed or is matched with.
KnownTo(u) ==
    {r.target_user_id : r \in {q \in interactions : q.user_id = u}}
        \cup {v \in Users : \E m \in matches : {m.user_id_1, m.user_id_2} = {u, v} /\ v # u}

ResultSet(i) == {reqs[i].result[k] : k \in DOMAIN reqs[i].result}

\* C20: the explore feed never contains the caller's own profile, for any
\* limit and offset; it does not leave out profiles the caller has liked,
\* passed or matched: a first page that is large enough is every other user.
C20_FeedExcludesOnlyCaller ==
    \A i \in DOMAIN reqs :
        (reqs[i].kind = "feed" /\ reqs[i].pc = "done" /\ reqs[i].status = 200)
            => /\ reqs[i].user \notin ResultSet(i)
               /\ (reqs[i].offset = 0 /\ reqs[i].limit >= Cardinality(Users))
                     => ResultSet(i) = Users \ {reqs[i].user}

\* The feed of user 1 contains user 2, whom 1 liked and is matched with, and
\* user 3, whom 1 passed.
C20_Witness ==
    \E i \in DOMAIN reqs :
        /\ reqs[i].kind = "feed" /\ reqs[i].pc = "done" /\ reqs[i].status = 200
        /\ \E u, v \in ResultSet(i) \cap KnownTo(reqs[i].user) :
              /\ MatchRows(reqs[i].user, u) # {}
              /\ \E r \in interactions :
                    /\ r.user_id = reqs[i].user /\ r.target_user_id = v
                    /\ r.interaction_type = "pass"

(***************************************************************************)
(* Properties of the login route (checked under SpecAuth).                 *)
(***************************************************************************)
\* Request i is a login with an email and a password that has been answered.
LoginAnswered(i) ==
    /\ reqs[i].kind = "login" /\ reqs[i].pc = "done"
    /\ reqs[i].email # NoEmail /\ reqs[i].password # ""

UnknownEmail(i) == ~\E a \in Accounts : a.email = reqs[i].email

WrongPassword(i) ==
    \E a \in Accounts : a.email = reqs[i].email /\ a.password # reqs[i].password

\* C19: a login with an email no account has and a login with the email of
\* an account and a wrong password get the same status and the same body.
C19_SameAnswer ==
    \A i, j \in DOMAIN reqs :
        (LoginAnswered(i) /\ UnknownEmail(i) /\ LoginAnswered(j) /\ WrongPassword(j))
            => /\ reqs[i].status = reqs[j].status
               /\ reqs[i].body = reqs[j].body
               /\ reqs[i].status = 401

\* Both kinds of refused login have been answered.
C19_Witness ==
    \E i, j \in DOMAIN reqs :
        /\ LoginAnswered(i) /\ UnknownEmail(i) /\ reqs[i].calls = 1
        /\ LoginAnswered(j) /\ WrongPassword(j) /\ reqs[j].calls = 1

(***************************************************************************)
(* Properties of the photo delete route.                                   *)
(***************************************************************************)
PhotoRow(id) == \E p \in profile_photos : p.id = id

\* C21: a photo is deleted only by its owner: a delete by another
\* authenticated user answers 403 and leaves the object and the row in
\* place; a delete of a photo id that does not exist answers 404 and changes
\* nothing.
C21_OnlyOwnerDeletes ==
    /\ [][\A i \in DOMAIN reqs :
            (reqs[i].kind = "delete" /\ reqs[i].pc = "fetchPhoto" /\ reqs'[i] # reqs[i])
                => /\ (\E p \in profile_photos :
                          p.id = reqs[i].photoId /\ p.user_id # reqs[i].user)
                      => /\ reqs'[i].pc = "done" /\ reqs'[i].status = 403
                         /\ objects' = objects /\ profile_photos' = profile_photos
                   /\ ~PhotoRow(reqs[i].photoId)
                      => /\ reqs'[i].pc = "done" /\ reqs'[i].status = 404
                         /\ objects' = objects /\ profile_photos' = profile_photos]_vars
    /\ [][\A p \in profile_photos :
            p \notin profile_photos'
                => \E i \in DOMAIN reqs :
                      /\ reqs[i].kind = "delete" /\ reqs[i].user = p.user_id
                      /\ reqs'[i] # reqs[i]]_vars
    /\ [][\A o \in objects :
            o \notin objects'
                => \E i \in DOMAIN reqs :
                      /\ reqs[i].kind = "delete" /\ reqs[i].user = o.folder
                      /\ reqs'[i] # reqs[i]]_vars

\* User 2 asked to delete the photo of user 1 and was answered 403, user 3
\* asked to delete a photo that does not exist and was answered 404; the
\* photo of user 1 and its object are in place.
C21_Witness ==
    \E i, j \in DOMAIN reqs :
        /\ reqs[i].kind = "delete" /\ reqs[i].user = 2 /\ reqs[i].photoId = 1
        /\ reqs[i].pc = "done" /\ reqs[i].status = 403
        /\ reqs[j].kind = "delete" /\ reqs[j].user # NoUser /\ reqs[j].photoId = 3
        /\ reqs[j].pc = "done" /\ reqs[j].status = 404
        /\ PhotoRow(1) /\ \E o \in objects : o.id = 1

\* The object the photo row p names is in the bucket.
ObjectOf(p) == \E o \in objects : o.bucket = "profile-photos" /\ o.id = p.photo_url

\* C29 as claimed: deleting a photo is all-or-nothing: after a delete that
\* answered an error the row and its object both exist, after one that
\* answered 200 neither does, and no state has a row whose object is gone.
C29_DeleteAllOrNothing ==
    /\ \A p \in profile_photos : ObjectOf(p)
    /\ \A i \in DOMAIN reqs :
          (reqs[i].kind = "delete" /\ reqs[i].pc = "done" /\ reqs[i].photo # NoRow)
              => IF reqs[i].status = 200
                 THEN ~PhotoRow(reqs[i].photoId) /\ ~ObjectOf(reqs[i].photo)
                 ELSE PhotoRow(reqs[i].photoId) /\ ObjectOf(reqs[i].photo)

(***************************************************************************)
(* Properties of registration and of the shared client.                    *)
(***************************************************************************)
\* No registration is in progress.
NoRegistrationRunning ==
    \A i \in DOMAIN reqs : reqs[i].kind = "register" => reqs[i].pc = "done"

\* C25 as claimed: registration creates all of its rows or none: once every
\* registration request has been answered, each identity has exactly one
\* profile row and each profile exactly one profile_details row.
C25_RegistrationAtomic ==
    NoRegistrationRunning
        => /\ \A a \in identities :
                Cardinality({p \in profiles : p.id = a.user}) = 1
           /\ \A p \in profiles :
                Cardinality({d \in profile_details : d.user_id = p.id}) = 1

\* C28 as claimed: the session the shared client holds is not changed by
\* the login, refresh and logout of any user, and a logout ends only the
\* session of its caller.
C28_NoSharedSession ==
    /\ [][\A i \in DOMAIN reqs :
            (reqs[i].kind \in {"login", "refresh"} /\ reqs'[i] # reqs[i])
                => session' = session]_vars
    /\ [][\A i \in DOMAIN reqs :
            (reqs[i].kind = "logout" /\ reqs'[i] # reqs[i] /\ session # reqs[i].user)
                => session' = session]_vars

(***************************************************************************)
(* Properties of the message rows (checked under SpecMsg).                 *)
(***************************************************************************)
\* C26: the sender of every message row is one of the two users of the
\* match the row belongs to, however the message requests interleave.
C26_SenderIsParticipant ==
    \A m \in messages :
        \E mt \in matches :
            mt.id = m.match_id /\ m.sender_id \in {mt.user_id_1, mt.user_id_2}

\* A sendMessage has stored its row while another one is between its match
\* lookup and its insert.
C26_Witness ==
    \E i, j \in DOMAIN reqs :
        /\ i # j
        /\ reqs[i].kind = "send" /\ reqs[i].pc = "done" /\ reqs[i].status = 201
        /\ \E m \in messages : m.id = reqs[i].message /\ m.sender_id = reqs[i].user
        /\ reqs[j].kind = "send" /\ reqs[j].pc = "insertMessage"

\* C30 as claimed: read_at of a message changes only in a markRead step of
\* the message's recipient, the participant of its match who did not send
\* it; a markRead of the sender leaves read_at as it was.
C30_OnlyRecipientMarksRead ==
    [][\A m \in messages : \A n \in messages' :
          (n.id = m.id /\ n.read_at # m.read_at)
              => \E i \in DOMAIN reqs :
                    /\ reqs[i].kind = "read" /\ reqs'[i] # reqs[i]
                    /\ reqs[i].messageId = m.id
                    /\ reqs[i].user # m.sender_id
                    /\ IsParticipant(reqs[i].user, m.match_id)]_vars

====
